---- MODULE Spec2Model ----
(***************************************************************************)
(* Model of the API-testing backend (src/main.py, src/schemas.py).         *)
(*                                                                         *)
(* The persistent store holds two Mongo collections, "requesthistory" and  *)
(* "collection", each a sequence of documents in natural insertion order.  *)
(* Every HTTP handler is one atomic action; the outcome of the outbound    *)
(* HTTP call and the availability of the store are chosen by the           *)
(* environment.  The helpers of database.py (create_document,              *)
(* get_documents) follow the behaviour the specification gives for the     *)
(* store (section 4.2).                                                    *)
(***************************************************************************)
EXTENDS Integers, Sequences, FiniteSets

VARIABLES
    db,              \* the global store handle: "None", "up" or "down"
    requesthistory,  \* documents of the "requesthistory" collection
    collection,      \* documents of the "collection" collection
    call,            \* the inbound call served by the latest step
    response         \* what that call returned to its caller

vars == <<db, requesthistory, collection, call, response>>

----------------------------------------------------------------------------
(* Bounds of the model *)

MaxDocs == 3     \* documents held by the store, both collections together
MaxItems == 2    \* items held by all collection documents together

(* Program constants *)

Timeout == 30

----------------------------------------------------------------------------
(* Values *)

None == [kind |-> "None"]
Str(s) == [kind |-> "str", val |-> s]
Dict(s) == [kind |-> "dict", val |-> s]

HttpMethod == {"GET", "POST", "PUT", "DELETE", "PATCH"}

RequestConfig(url, method, headers, params, body) ==
    [cls |-> "RequestConfig", url |-> url, method |-> method,
     headers |-> headers, params |-> params, body |-> body]

RequestHistory(request, status, time_ms, headers, body) ==
    [cls |-> "RequestHistory", request |-> request, response_status |-> status,
     response_time_ms |-> time_ms, response_headers |-> headers,
     response_body |-> body]

Collection(name, description, items) ==
    [cls |-> "Collection", name |-> name, description |-> description,
     items |-> items]

\* pydantic's model_dump: the plain dict of a model's fields, nested models
\* dumped in turn
model_dump_request(m) ==
    [url |-> m.url, method |-> m.method, headers |-> m.headers,
     params |-> m.params, body |-> m.body]

model_dump_history(m) ==
    [request |-> model_dump_request(m.request),
     response_status |-> m.response_status,
     response_time_ms |-> m.response_time_ms,
     response_headers |-> m.response_headers,
     response_body |-> m.response_body]

model_dump_collection(m) ==
    [name |-> m.name, description |-> m.description,
     items |-> [i \in 1..Len(m.items) |->
                  [title |-> m.items[i].title,
                   request |-> model_dump_request(m.items[i].request)]]]

\* str.upper on the method names
Upper(s) ==
    CASE s = "get" -> "GET"
      [] s = "post" -> "POST"
      [] s = "put" -> "PUT"
      [] s = "delete" -> "DELETE"
      [] s = "patch" -> "PATCH"
      [] OTHER -> s

\* bson.ObjectId and its string form.  An id is unique in the store: the
\* n-th document inserted into a collection gets <<collection, n>>.  Its
\* string form is <<"hex", collection, n>>; any other string is no ObjectId.
HexStr(name, n) == <<"hex", name, n>>
ObjectIdValid(s) == s[1] = "hex"
ObjectId(s) == [oid |-> <<s[2], s[3]>>]
str(o) == HexStr(o.oid[1], o.oid[2])

\* datetime.isoformat; the fields of a stored document that hold a datetime
isoformat(d) == <<"iso", d.t>>
DatetimeFields == {"created_at", "updated_at"}

Min(a, b) == IF a < b THEN a ELSE b
Max(a, b) == IF a > b THEN a ELSE b
Reverse(s) == [i \in 1..Len(s) |-> s[Len(s) + 1 - i]]

----------------------------------------------------------------------------
(* Inputs *)

Descriptors ==
    { [url |-> "http://a/ping", method |-> "GET", headers |-> {},
       params |-> {}, body |-> None],
      [url |-> "http://b/items", method |-> "POST",
       headers |-> {<<"x-token", "t">>}, params |-> {<<"q", "1">>},
       body |-> Dict("{\"n\":1}")] }

Payloads ==
    { [url |-> d.url, method |-> d.method, headers |-> d.headers,
       params |-> d.params, body |-> d.body, save |-> s] :
         d \in {x \in Descriptors : x.method \in HttpMethod}, s \in BOOLEAN }

JsonTexts == {"{\"ok\":true}"}

\* what the outbound call can end in: a transport failure, or a response
\* after some elapsed wall time
Outcomes ==
    { [kind |-> "RequestException", error |-> "connection refused"],
      [kind |-> "ok", status_code |-> 200,
       headers |-> {<<"content-type", "application/json">>},
       text |-> "{\"ok\":true}", elapsed_ms |-> 12],
      [kind |-> "ok", status_code |-> 404, headers |-> {},
       text |-> "not found", elapsed_ms |-> 0] }

Limits == {-1, 0, 1, 2}

Names == {"Smoke Tests"}
Descriptions == {Str("checks")}
Titles == {"Ping"}
CollectionIds ==
    {HexStr("collection", n) : n \in 1..MaxDocs}
        \cup {HexStr("requesthistory", 1), <<"zz", "", 0>>}

----------------------------------------------------------------------------
(* The store helpers *)

Store(name) == IF name = "requesthistory" THEN requesthistory ELSE collection

model_dump(m) ==
    CASE m.cls = "RequestHistory" -> model_dump_history(m)
      [] m.cls = "Collection" -> model_dump_collection(m)
      [] OTHER -> model_dump_request(m)

Merge(a, b) ==
    [k \in DOMAIN a \cup DOMAIN b |-> IF k \in DOMAIN b THEN b[k] ELSE a[k]]

NewId(name) == [oid |-> <<name, Len(Store(name)) + 1>>]

\* append(collectionName, document) -> id: the document as the store would
\* hold it (the model's fields and a generated _id), or the failure of an
\* unavailable store
create_document(name, data) ==
    IF db # "up"
    THEN [ok |-> FALSE, error |-> "Database not available"]
    ELSE [ok |-> TRUE, id |-> str(NewId(name)),
          doc |-> Merge(model_dump(data), [_id |-> NewId(name)])]

\* list(collectionName, limit?) -> documents in insertion order: with a
\* limit, the most recently inserted ones, at most limit of them
get_documents(name, has_limit, limit) ==
    IF db # "up"
    THEN [ok |-> FALSE, error |-> "Database not available"]
    ELSE LET s == Store(name)
             n == IF has_limit THEN Min(Max(limit, 0), Len(s)) ELSE Len(s)
         IN [ok |-> TRUE, docs |-> SubSeq(s, Len(s) - n + 1, Len(s))]

\* pymongo's update_one({"_id": oid}, {"$push": {"items": item}}) on the
\* "collection" collection: the first matching document gets the item
\* appended to its array, no match changes nothing; an unreachable server
\* raises
Matching(oid) == {i \in 1..Len(collection) : collection[i]._id = oid}

update_one_push(oid, item) ==
    IF db # "up"
    THEN [ok |-> FALSE, error |-> "ServerSelectionTimeoutError",
          docs |-> collection]
    ELSE IF Matching(oid) = {}
    THEN [ok |-> TRUE, matched |-> 0, docs |-> collection]
    ELSE LET i == CHOOSE j \in Matching(oid) : \A k \in Matching(oid) : j <= k
         IN [ok |-> TRUE, matched |-> 1,
             docs |-> [collection EXCEPT ![i].items = Append(@, item)]]

----------------------------------------------------------------------------
(* Responses *)

HTTPException(status_code, detail) ==
    [status |-> status_code, detail |-> detail]

Ok(body) == [status |-> 200, body |-> body]

----------------------------------------------------------------------------
Init ==
    /\ db \in {"None", "up"}
    /\ requesthistory = <<>>
    /\ collection = <<>>
    /\ call = [op |-> "start"]
    /\ response = Ok(<<>>)

(* POST /proxy *)

\* the outbound call as requests.request receives it
proxy_sent(payload) ==
    LET method == Upper(payload.method)
        headers == IF payload.headers = {} THEN {} ELSE payload.headers
        params == IF payload.params = {} THEN {} ELSE payload.params
        json_body == IF payload.body # None /\ payload.body.kind = "dict"
                     THEN payload.body ELSE None
        data == IF payload.body # None /\ payload.body.kind # "dict"
                THEN Str(payload.body.val) ELSE None
    IN [method |-> method, url |-> payload.url, headers |-> headers,
        params |-> params, json |-> json_body, data |-> data,
        timeout |-> Timeout]

\* the response body: the decoded JSON, or the text when decoding fails
proxy_response_body(outcome) ==
    IF outcome.text \in JsonTexts THEN Dict(outcome.text) ELSE Str(outcome.text)

\* proxy_history_doc, with status and elapsed time in each other's place
proxy_history_doc_swapped(payload, outcome) ==
    LET sent == proxy_sent(payload)
    IN RequestHistory(
           RequestConfig(sent.url, sent.method, sent.headers, sent.params,
                         payload.body),
           outcome.elapsed_ms,
           outcome.status_code,
           {kv : kv \in outcome.headers},
           proxy_response_body(outcome))

\* the summary of a completed outbound call, as the history keeps it
proxy_history_doc(payload, outcome) ==
    LET sent == proxy_sent(payload)
    IN RequestHistory(
           RequestConfig(sent.url, sent.method, sent.headers, sent.params,
                         payload.body),
           outcome.status_code,
           outcome.elapsed_ms,
           {kv : kv \in outcome.headers},
           proxy_response_body(outcome))

\* proxy_save, without the test of the save flag
proxy_save_always(payload, outcome) ==
    LET saved == create_document("requesthistory",
                                 proxy_history_doc(payload, outcome))
    IN IF saved.ok THEN Append(requesthistory, saved.doc) ELSE requesthistory

\* proxy_save, keeping only the latest record
proxy_save_overwrite(payload, outcome) ==
    LET saved == create_document("requesthistory",
                                 proxy_history_doc(payload, outcome))
    IN IF payload.save
       THEN IF saved.ok THEN <<saved.doc>> ELSE requesthistory
       ELSE requesthistory

\* the history after the best-effort save of a completed outbound call
proxy_save(payload, outcome) ==
    LET saved == create_document("requesthistory",
                                 proxy_history_doc(payload, outcome))
    IN IF payload.save
       THEN IF saved.ok THEN Append(requesthistory, saved.doc)
            ELSE requesthistory
       ELSE requesthistory

\* proxy_return, were a failed save raised to the caller
proxy_return_save_error(payload, outcome) ==
    LET saved == create_document("requesthistory",
                                 proxy_history_doc(payload, outcome))
    IN IF payload.save /\ ~saved.ok
       THEN HTTPException(500, saved.error)
       ELSE Ok([status |-> outcome.status_code,
                time_ms |-> outcome.elapsed_ms,
                headers |-> {kv : kv \in outcome.headers},
                body |-> proxy_response_body(outcome)])

\* what the caller gets after a completed outbound call
proxy_return(payload, outcome) ==
    Ok([status |-> outcome.status_code,
        time_ms |-> outcome.elapsed_ms,
        headers |-> {kv : kv \in outcome.headers},
        body |-> proxy_response_body(outcome)])

\* what the caller gets when the outbound call raises
proxy_raise(outcome) ==
    HTTPException(502, <<"Request failed: ", outcome.error>>)

\* proxy_request, saving a record of the failed outbound call too
proxy_request_save_failed(payload, outcome) ==
    /\ call' = [op |-> "proxy", payload |-> payload,
                sent |-> proxy_sent(payload), outcome |-> outcome]
    /\ IF outcome.kind = "RequestException"
       THEN /\ response' = proxy_raise(outcome)
            /\ requesthistory' =
                 IF payload.save /\ db = "up"
                 THEN Append(requesthistory,
                             create_document(
                                 "requesthistory",
                                 RequestHistory(
                                     RequestConfig(payload.url, payload.method,
                                                   payload.headers, payload.params,
                                                   payload.body),
                                     None, None, {}, None)).doc)
                 ELSE requesthistory
            /\ Len(requesthistory') + Len(collection) <= MaxDocs
       ELSE /\ requesthistory' = proxy_save(payload, outcome)
            /\ Len(requesthistory') + Len(collection) <= MaxDocs
            /\ response' = proxy_return(payload, outcome)
    /\ UNCHANGED <<db, collection>>

proxy_request(payload, outcome) ==
    /\ call' = [op |-> "proxy", payload |-> payload,
                sent |-> proxy_sent(payload), outcome |-> outcome]
    /\ IF outcome.kind = "RequestException"
       THEN /\ response' = proxy_raise(outcome)
            /\ UNCHANGED requesthistory
       ELSE /\ requesthistory' = proxy_save(payload, outcome)
            /\ Len(requesthistory') + Len(collection) <= MaxDocs
            /\ response' = proxy_return(payload, outcome)
    /\ UNCHANGED <<db, collection>>

(* GET /history?limit=N *)

\* the nested normalize of list_history
normalize(doc) ==
    [k \in DOMAIN doc |->
        IF k = "_id" THEN str(doc[k])
        ELSE IF k \in DatetimeFields THEN isoformat(doc[k])
        ELSE doc[k]]

\* list_history's result without the final reversal
list_history_return_unreversed(limit) ==
    LET got == get_documents("requesthistory", TRUE, limit)
        docs == IF got.ok THEN got.docs ELSE <<>>
    IN Ok([i \in 1..Len(docs) |-> normalize(docs[i])])

\* list_history's result, were a failed read raised to the caller
list_history_return_raises(limit) ==
    LET got == get_documents("requesthistory", TRUE, limit)
    IN IF got.ok
       THEN Ok(Reverse([i \in 1..Len(got.docs) |-> normalize(got.docs[i])]))
       ELSE HTTPException(500, got.error)

list_history_return(limit) ==
    LET got == get_documents("requesthistory", TRUE, limit)
        docs == IF got.ok THEN got.docs ELSE <<>>
    IN Ok(Reverse([i \in 1..Len(docs) |-> normalize(docs[i])]))

list_history(limit) ==
    /\ call' = [op |-> "history", limit |-> limit]
    /\ response' = list_history_return(limit)
    /\ UNCHANGED <<db, requesthistory, collection>>

(* POST /collections *)

\* create_collection's result, were a failed write swallowed
create_collection_return_swallow(body) ==
    LET col == Collection(body.name, body.description, <<>>)
        created == create_document("collection", col)
    IN IF created.ok
       THEN Ok([id |-> created.id, message |-> "Collection created"])
       ELSE Ok([id |-> <<"None">>, message |-> "Collection created"])

create_collection_return(body) ==
    LET col == Collection(body.name, body.description, <<>>)
        created == create_document("collection", col)
    IN IF created.ok
       THEN Ok([id |-> created.id, message |-> "Collection created"])
       ELSE HTTPException(500, created.error)

create_collection_store(body) ==
    LET col == Collection(body.name, body.description, <<>>)
        created == create_document("collection", col)
    IN IF created.ok THEN Append(collection, created.doc) ELSE collection

create_collection(body) ==
    /\ call' = [op |-> "create_collection", body |-> body]
    /\ collection' = create_collection_store(body)
    /\ Len(requesthistory) + Len(collection') <= MaxDocs
    /\ response' = create_collection_return(body)
    /\ UNCHANGED <<db, requesthistory>>

(* GET /collections *)

\* the nested normalize of get_collections
normalize_collection(doc) ==
    [k \in DOMAIN doc |->
        IF k = "_id" THEN str(doc[k])
        ELSE IF k \in DatetimeFields THEN isoformat(doc[k])
        ELSE doc[k]]

get_collections_return ==
    LET got == get_documents("collection", FALSE, 0)
        docs == IF got.ok THEN got.docs ELSE <<>>
    IN Ok([i \in 1..Len(docs) |-> normalize_collection(docs[i])])

get_collections ==
    /\ call' = [op |-> "collections"]
    /\ response' = get_collections_return
    /\ UNCHANGED <<db, requesthistory, collection>>

(* POST /collections/add-item *)

RECURSIVE ItemCount(_)
ItemCount(docs) ==
    IF docs = <<>> THEN 0
    ELSE Len(docs[1].items) + ItemCount(Tail(docs))

\* add_item_update with $set in the place of $push
add_item_update_set(body) ==
    LET oid == ObjectId(body.collection_id)
        item == [title |-> body.title,
                 request |-> model_dump_request(body.request)]
    IN IF db # "up"
       THEN [ok |-> FALSE, error |-> "ServerSelectionTimeoutError",
             docs |-> collection]
       ELSE [ok |-> TRUE,
             docs |-> [i \in 1..Len(collection) |->
                         IF collection[i]._id = oid
                         THEN [collection[i] EXCEPT !.items = <<item>>]
                         ELSE collection[i]]]

\* the update the handler asks of the store, once the handle exists and the
\* id parses
add_item_update(body) ==
    update_one_push(
        ObjectId(body.collection_id),
        [title |-> body.title, request |-> model_dump_request(body.request)])

add_item_return(body) ==
    IF db = "None"
    THEN HTTPException(500, "Database not available")
    ELSE IF ~ObjectIdValid(body.collection_id)
    THEN HTTPException(500, "InvalidId")
    ELSE IF add_item_update(body).ok
    THEN Ok([message |-> "Item added"])
    ELSE HTTPException(500, add_item_update(body).error)

add_item_store(body) ==
    IF db = "None" \/ ~ObjectIdValid(body.collection_id)
    THEN collection
    ELSE add_item_update(body).docs

add_item_to_collection(body) ==
    /\ call' = [op |-> "add_item", body |-> body]
    /\ collection' = add_item_store(body)
    /\ ItemCount(collection') <= MaxItems
    /\ response' = add_item_return(body)
    /\ UNCHANGED <<db, requesthistory>>

\* the store becomes unreachable, or reachable again
StoreDown ==
    /\ db = "up"
    /\ db' = "down"
    /\ call' = [op |-> "env"]
    /\ UNCHANGED <<requesthistory, collection, response>>

StoreUp ==
    /\ db = "down"
    /\ db' = "up"
    /\ call' = [op |-> "env"]
    /\ UNCHANGED <<requesthistory, collection, response>>

AddItemBodies ==
    { [collection_id |-> c, title |-> t,
       request |-> RequestConfig(d.url, d.method, d.headers, d.params, d.body)] :
         c \in CollectionIds, t \in Titles, d \in Descriptors }

CreateCollectionBodies ==
    { [name |-> n, description |-> d] : n \in Names, d \in Descriptions }

ProxyRequest == \E payload \in Payloads, outcome \in Outcomes :
                    proxy_request(payload, outcome)
ListHistory == \E limit \in Limits : list_history(limit)
CreateCollection == \E body \in CreateCollectionBodies : create_collection(body)
GetCollections == get_collections
AddItemToCollection == \E body \in AddItemBodies : add_item_to_collection(body)

Next ==
    \/ ProxyRequest
    \/ ListHistory
    \/ CreateCollection
    \/ GetCollections
    \/ AddItemToCollection
    \/ StoreDown
    \/ StoreUp

Spec == Init /\ [][Next]_vars
----------------------------------------------------------------------------
(* Properties *)

IsPrefix(s, t) == Len(s) <= Len(t) /\ SubSeq(t, 1, Len(s)) = s

\* the call served by the latest step
ProxyDone == call.op = "proxy" /\ call.outcome.kind = "ok"
ProxyFailed == call.op = "proxy" /\ call.outcome.kind = "RequestException"

C2_TransportFailure ==
    [][(call'.op = "proxy" /\ call'.outcome.kind = "RequestException") =>
          /\ response'.status = 502
          /\ response'.detail[2] = call'.outcome.error
          /\ requesthistory' = requesthistory
          /\ collection' = collection]_vars

C2_Witness ==
    /\ ProxyFailed /\ call.payload.save /\ db = "up"
    /\ Len(requesthistory) = 1 /\ Len(requesthistory) + Len(collection) < MaxDocs
    /\ response.status = 502

\* C3: a proxy call with save = false leaves the history store as it was,
\* whether its outbound call succeeded or failed.
C3_NoSaveNoRecord ==
    [][(call'.op = "proxy" /\ ~call'.payload.save) =>
          requesthistory' = requesthistory]_vars

C3_Witness ==
    /\ ProxyDone /\ ~call.payload.save /\ db = "up"
    /\ Len(requesthistory) = 1 /\ Len(requesthistory) + Len(collection) < MaxDocs
    /\ response.status = 200

\* the ids, in string form, of the n most recently inserted history documents
MostRecentIds(n) ==
    {str(requesthistory[i]._id) :
        i \in (Len(requesthistory) - n + 1)..Len(requesthistory)}

Inserted(id) ==
    LET at == {p \in 1..Len(requesthistory) : str(requesthistory[p]._id) = id}
    IN IF at = {} THEN 0 ELSE CHOOSE p \in at : TRUE

NewestFirst(records) ==
    \A i, j \in 1..Len(records) :
        i < j => /\ Inserted(records[i]._id) # 0
                 /\ Inserted(records[j]._id) # 0
                 /\ Inserted(records[i]._id) > Inserted(records[j]._id)

Resolves(id) ==
    {i \in 1..Len(collection) : ObjectIdValid(id) /\ str(collection[i]._id) = id}

\* C6: add-item with the id of an existing collection appends exactly one
\* element {title, request} at the end of that collection's items; its prior
\* items, its name and description, every other collection and the history
\* store are unchanged.
C6_AddItemAppends ==
    [][(/\ call'.op = "add_item" /\ db = "up"
        /\ Resolves(call'.body.collection_id) # {}) =>
          \E i \in Resolves(call'.body.collection_id) :
            /\ Len(collection') = Len(collection)
            /\ \A j \in 1..Len(collection) : j # i => collection'[j] = collection[j]
            /\ collection'[i].items =
                 Append(collection[i].items,
                        [title |-> call'.body.title,
                         request |->
                           [url |-> call'.body.request.url,
                            method |-> call'.body.request.method,
                            headers |-> call'.body.request.headers,
                            params |-> call'.body.request.params,
                            body |-> call'.body.request.body]])
            /\ collection'[i].name = collection[i].name
            /\ collection'[i].description = collection[i].description
            /\ collection'[i]._id = collection[i]._id
            /\ requesthistory' = requesthistory]_vars

C6_Witness ==
    /\ call.op = "add_item" /\ db = "up" /\ response.status = 200
    /\ Len(collection) = 2 /\ Len(requesthistory) = 1
    /\ Resolves(call.body.collection_id) = {1}
    /\ Len(collection[1].items) = 2
    /\ collection[1].items[1] # collection[1].items[2]
    /\ collection[2].items = <<>>

\* C7 as stated: add-item with a well-formed collection_id that resolves to
\* no collection returns a not-found error, not the success confirmation.
C7_NotFound ==
    (/\ call.op = "add_item" /\ db = "up"
     /\ ObjectIdValid(call.body.collection_id)
     /\ Resolves(call.body.collection_id) = {}) =>
        response.status = 404

\* C8: the history store is append-only: no step modifies or removes a
\* persisted record, a step adds at most one record, and only a proxy call
\* whose outbound call completed successfully adds one.
C8_AppendOnly ==
    [][/\ IsPrefix(requesthistory, requesthistory')
       /\ Len(requesthistory') <= Len(requesthistory) + 1
       /\ Len(requesthistory') = Len(requesthistory) + 1 =>
            (call'.op = "proxy" /\ call'.outcome.kind = "ok"
               /\ call'.payload.save)]_vars

C8_Witness ==
    /\ ProxyDone /\ call.payload.save /\ db = "up"
    /\ Len(requesthistory) = 2 /\ collection # <<>>
    /\ ItemCount(collection) > 0

\* C9: with the store unavailable, GET /history (any limit) and
\* GET /collections return an empty sequence, not an error.
C9_ReadsSwallow ==
    (call.op \in {"history", "collections"} /\ db # "up") =>
        response = Ok(<<>>)

C9_Witness ==
    /\ call.op = "history" /\ db = "down"
    /\ requesthistory # <<>>
    /\ response = Ok(<<>>)

\* C10: with the store unavailable, POST /collections and
\* POST /collections/add-item return a 500 and leave the store as it was.
C10_WritesSurface ==
    [][(call'.op \in {"create_collection", "add_item"} /\ db # "up") =>
          /\ response'.status = 500
          /\ collection' = collection
          /\ requesthistory' = requesthistory]_vars

C10_Witness ==
    /\ call.op = "create_collection" /\ db = "down"
    /\ collection # <<>>
    /\ response.status = 500
====
